---------------------------- MODULE Spec2Model ----------------------------
(***************************************************************************)
(* A model of the PubMed iterative-expansion pipeline of                   *)
(* src/pubmed_elink.py: seed aggregation (Phase 1), raw scores (Phase 2),  *)
(* content filtering (Phase 3), age weighting and comparative boost        *)
(* (Phase 4) and the report files (Phase 5).                               *)
(*                                                                         *)
(* Abstractions.                                                           *)
(*  - Publication identifiers are relabelled, order preserved, into        *)
(*    1..MaxPmid.  The relabelled INCLUDE_PMIDS, EXCLUDE_PMIDS and         *)
(*    MIN_PMID keep what the source lists have: no duplicates, disjoint    *)
(*    lists, MIN_PMID is the least INCLUDE identifier, EXCLUDE has         *)
(*    identifiers on both sides of MIN_PMID, and there are identifiers     *)
(*    below MIN_PMID that are in neither list.                             *)
(*  - A Python dict is a TLA+ function; nothing the program writes depends *)
(*    on dict insertion order (every output is sorted with a total key).   *)
(*  - Floats are exact rationals [num, den] with den > 0; the exponent     *)
(*    age_gamma ranges over integers so that the power is exact.           *)
(*  - A text (title, abstract) is the set of vocabulary words occurring    *)
(*    in it; a regular expression is the set of vocabulary words it finds. *)
(***************************************************************************)
EXTENDS Integers, Sequences, FiniteSets, TLC

\* ------------------------------------------------------------------------
\* Bounds of the model
\* ------------------------------------------------------------------------
MaxPmid == 8        \* identifiers are 1..MaxPmid
MaxRelated == 2     \* lines of one efetch -format uid response

\* ------------------------------------------------------------------------
\* Seed lists and configuration (relabelled)
\* ------------------------------------------------------------------------
INCLUDE_PMIDS == <<4, 3>>
EXCLUDE_PMIDS == <<2, 5>>
MIN_PMID == 3

PMIDS == 1..MaxPmid

Range(s) == {s[i] : i \in DOMAIN s}

include_set == Range(INCLUDE_PMIDS)
exclude_set == Range(EXCLUDE_PMIDS)

\* A function with the empty domain: the empty dict.
EmptyDict == [x \in {} |-> 0]

VARIABLES
    pc,                \* position of main(): "phase1", "phase3", "phase4",
                       \* "phase5", "done", "exit" (sys.exit(1)), "raised"
                       \* (uncaught exception); of the filter taken alone:
                       \* "filter", "filtered", "refiltered"; of
                       \* fetch_article_metadata taken alone: "fetch",
                       \* "parsing", "fetched"
    args,              \* parsed command line
    idx,               \* seeds processed so far by the Phase 1 loop
    related,           \* what get_related_pmids returned for the last seed
    last_call,         \* the external commands run for the last seed
    queries,           \* per processed seed, the number of commands issued
    candidate_seeds,   \* PMID -> sequence of seeds
    candidate_scores,  \* PMID -> raw score
    comparative_hits,  \* PMIDs flagged comparative
    weighted_scores,   \* PMID -> rational
    threshold_files,   \* threshold T -> lines of candidates_min{T}_seeds.txt
    writes,            \* thresholds in the order their files were opened
    ranked_file,       \* rows of candidates_ranked.txt; <<>> before it exists
    ranked_written,    \* candidates_ranked.txt exists
    conf,              \* [high, med, low] confidence counts
    require_pos,       \* filter_candidates option
    assembly_only_exclude, \* filter_candidates option
    metadata,          \* PMID -> fetched record (the filter's view)
    filtered,          \* result of filter_candidates
    refiltered,        \* result of filter_candidates applied to filtered
    parser             \* the locals of fetch_article_metadata

vars == <<pc, args, idx, related, last_call, queries, candidate_seeds,
          candidate_scores, comparative_hits, weighted_scores,
          threshold_files, writes, ranked_file, ranked_written, conf,
          require_pos, assembly_only_exclude, metadata, filtered, refiltered,
          parser>>

\* ------------------------------------------------------------------------
\* run_command and get_related_pmids
\* ------------------------------------------------------------------------

\* A line of efetch's uid output: a positive number is a line of digits,
\* -1 is a line that str.isdigit() rejects.
UidLines == PMIDS \cup {-1}

RECURSIVE SeqsUpTo(_, _)
SeqsUpTo(S, n) ==
    IF n = 0 THEN {<<>>}
    ELSE LET shorter == SeqsUpTo(S, n - 1)
         IN  shorter \cup {Append(s, x) : s \in {t \in shorter : Len(t) = n - 1}, x \in S}

\* What run_command can return: (stdout, returncode).  A timeout and any
\* other exception give ("", 1).
run_command_results(stdouts) ==
    {[kind |-> "ok", stdout |-> s, code |-> 0] : s \in stdouts \ {<<>>}}
    \cup {[kind |-> "empty", stdout |-> <<>>, code |-> 0],
          [kind |-> "timeout", stdout |-> <<>>, code |-> 1]}
    \cup {[kind |-> "nonzero", stdout |-> s, code |-> 1] : s \in stdouts}

ElinkResults == run_command_results({<<>>, <<0>>})
EfetchUidResults == run_command_results(SeqsUpTo(UidLines, MaxRelated))

command_failed(res) == res.code # 0 \/ res.stdout = <<>>

\* Lines 119-125: keep the lines that are digits, in order.
RECURSIVE parse_uids(_)
parse_uids(lines) ==
    IF lines = <<>> THEN <<>>
    ELSE LET rest == parse_uids(Tail(lines))
         IN  IF Head(lines) > 0 THEN <<Head(lines)>> \o rest ELSE rest

\* Mutant: efetch's exit code is not looked at.
get_related_pmids_ignoring_exit(elink, efetch) ==
    IF command_failed(elink) THEN <<>>
    ELSE IF efetch.stdout = <<>> THEN <<>>
    ELSE parse_uids(efetch.stdout)

get_related_pmids(elink, efetch) ==
    IF command_failed(elink) THEN <<>>
    ELSE IF command_failed(efetch) THEN <<>>
    ELSE parse_uids(efetch.stdout)

\* Commands issued by get_related_pmids: efetch runs only after a good elink.
commands_issued(elink) == IF command_failed(elink) THEN 1 ELSE 2

\* ------------------------------------------------------------------------
\* Phase 1: the aggregation loop of main()
\* ------------------------------------------------------------------------

\* Mutant: the age cutoff is forgotten.
skip_candidate_no_cutoff(pmid) ==
    \/ pmid \in include_set
    \/ pmid \in exclude_set

\* Lines 351-355: the two skips.
skip_candidate(pmid) ==
    \/ pmid \in include_set
    \/ pmid \in exclude_set
    \/ pmid < MIN_PMID

\* Line 357 on a defaultdict(list).
append_seed(cs, pmid, seed) ==
    IF pmid \in DOMAIN cs
    THEN [cs EXCEPT ![pmid] = Append(@, seed)]
    ELSE [p \in DOMAIN cs \cup {pmid} |-> IF p = pmid THEN <<seed>> ELSE cs[p]]

\* d[k] = v on a dict.
append_dict(d, k, v) == [p \in DOMAIN d \cup {k} |-> IF p = k THEN v ELSE d[p]]

\* Lines 349-357: the inner loop over one seed's related list.
RECURSIVE add_related(_, _, _)
add_related(cs, rel, seed) ==
    IF rel = <<>> THEN cs
    ELSE add_related(
            IF skip_candidate(Head(rel)) THEN cs ELSE append_seed(cs, Head(rel), seed),
            Tail(rel), seed)

\* Line 328: INCLUDE_PMIDS[:args.max_seeds] if args.max_seeds else INCLUDE_PMIDS
\* A Python slice seq[:n]: a negative n counts from the end.
slice_to(seq, n) ==
    IF n >= 0
    THEN SubSeq(seq, 1, IF n < Len(seq) THEN n ELSE Len(seq))
    ELSE SubSeq(seq, 1, IF Len(seq) + n > 0 THEN Len(seq) + n ELSE 0)

seeds_to_process ==
    IF args.max_seeds # 0
    THEN slice_to(INCLUDE_PMIDS, args.max_seeds)
    ELSE INCLUDE_PMIDS

NotRun == [kind |-> "notrun", stdout |-> <<>>, code |-> 0]
NoCall == [seed |-> 0, elink |-> "notrun", efetch |-> "notrun"]

Phase1Seed ==
    /\ pc = "phase1"
    /\ idx < Len(seeds_to_process)
    /\ LET seed == seeds_to_process[idx + 1] IN
       \E elink \in ElinkResults :
       \E efetch \in (IF command_failed(elink) THEN {NotRun} ELSE EfetchUidResults) :
          LET rel == get_related_pmids(elink, efetch) IN
          /\ related' = rel
          /\ last_call' = [seed |-> seed, elink |-> elink.kind, efetch |-> efetch.kind]
          /\ queries' = Append(queries, commands_issued(elink))
          /\ candidate_seeds' = add_related(candidate_seeds, rel, seed)
    /\ idx' = idx + 1
    /\ UNCHANGED <<pc, args, candidate_scores, comparative_hits, weighted_scores,
                   threshold_files, writes, ranked_file, ranked_written, conf,
                   require_pos, assembly_only_exclude, metadata, filtered, refiltered,
                   parser>>

\* Lines 365-376: the empty check, then Phase 2 (raw scores).  The loop's
\* locals are dead from here on.
raw_scores(cs) == [p \in DOMAIN cs |-> Len(cs[p])]

Phase2 ==
    /\ pc = "phase1"
    /\ idx = Len(seeds_to_process)
    /\ IF DOMAIN candidate_seeds = {}
       THEN /\ pc' = "exit"
            /\ UNCHANGED candidate_scores
       ELSE /\ pc' = "phase3"
            /\ candidate_scores' = raw_scores(candidate_seeds)
    /\ related' = <<>>
    /\ last_call' = NoCall
    /\ UNCHANGED <<args, idx, queries, candidate_seeds, comparative_hits,
                   weighted_scores, threshold_files, writes, ranked_file,
                   ranked_written, conf, require_pos, assembly_only_exclude,
                   metadata, filtered, refiltered,
                   parser>>

\* ------------------------------------------------------------------------
\* Phase 3: filter_candidates
\* ------------------------------------------------------------------------

\* str.lower() on the vocabulary.
Lower(w) ==
    CASE w = "WGS" -> "wgs"
      [] w = "SNP" -> "snp"
      [] w = "RNA-seq" -> "rna-seq"
      [] w = "Review" -> "review"
      [] w = "Journal Article" -> "journal article"
      [] OTHER -> w

\* The vocabulary of fetched records.
TitleWords == {"WGS", "resequencing", "assembly"}
AbstractWords == {"variant", "RNA-seq", "SNP"}
PubTypes == {"Journal Article", "Review"}

Metas == [title : SUBSET TitleWords, abstract : SUBSET AbstractWords,
          pubtypes : SUBSET PubTypes]

\* Lines 218-221 and 254: the words of the vocabulary each pattern finds.
pos_patterns == {"WGS", "resequencing"}
neg_patterns == {"SNP", "RNA-seq"}
excl_pt == {"Review"}
comparative_patterns == {"variant", "SNP", "resequencing"}
assembly_patterns == {"assembly"}

\* re.search(pattern, text, re.IGNORECASE)
search(pattern, text) == \E w \in text : \E p \in pattern : Lower(w) = Lower(p)

\* Line 245: f"{title} {abstract}".lower()
content_of(meta) == {Lower(w) : w \in meta.title \cup meta.abstract}
\* Line 246
pubtypes_of(meta) == {Lower(w) : w \in meta.pubtypes}

\* Mutant: a positive match overrides the negative patterns.
excluded_unless_positive(pmid, meta, hits, rp, aoe) ==
    LET content == content_of(meta)
        pubtypes == pubtypes_of(meta)
    IN  \/ aoe /\ search(assembly_patterns, content) /\ pmid \notin hits
        \/ pubtypes # {} /\ search(excl_pt, pubtypes)
        \/ search(neg_patterns, content) /\ ~search(pos_patterns, content)
        \/ rp /\ ~search(pos_patterns, content)

\* Mutant: any comparative candidate seen so far exempts from the
\* assembly-only exclusion.
excluded_unless_any_hit(pmid, meta, hits, rp, aoe) ==
    LET content == content_of(meta)
        pubtypes == pubtypes_of(meta)
    IN  \/ aoe /\ search(assembly_patterns, content) /\ hits = {}
        \/ pubtypes # {} /\ search(excl_pt, pubtypes)
        \/ search(neg_patterns, content)
        \/ rp /\ ~search(pos_patterns, content)

\* Lines 253-273: the exclusions, in order; hits already holds this
\* candidate's comparative flag.
excluded(pmid, meta, hits, rp, aoe) ==
    LET content == content_of(meta)
        pubtypes == pubtypes_of(meta)
    IN  \/ aoe /\ search(assembly_patterns, content) /\ pmid \notin hits
        \/ pubtypes # {} /\ search(excl_pt, pubtypes)
        \/ search(neg_patterns, content)
        \/ rp /\ ~search(pos_patterns, content)

\* Lines 238-276: one iteration of the filter loop.
\* acc = [filtered, comparative_hits].
filter_one(acc, pmid, seeds, md, rp, aoe) ==
    IF pmid \notin DOMAIN md
    THEN [acc EXCEPT !.filtered = append_dict(@, pmid, seeds)]
    ELSE LET hits == IF search(comparative_patterns, content_of(md[pmid]))
                     THEN acc.comparative_hits \cup {pmid}
                     ELSE acc.comparative_hits
         IN  IF excluded(pmid, md[pmid], hits, rp, aoe)
             THEN [acc EXCEPT !.comparative_hits = hits]
             ELSE [filtered |-> append_dict(acc.filtered, pmid, seeds),
                   comparative_hits |-> hits]

RECURSIVE filter_loop(_, _, _, _, _, _)
filter_loop(acc, todo, candidates, md, rp, aoe) ==
    IF todo = {} THEN acc
    ELSE LET pmid == CHOOSE p \in todo : \A q \in todo : p <= q
         IN  filter_loop(filter_one(acc, pmid, candidates[pmid], md, rp, aoe),
                         todo \ {pmid}, candidates, md, rp, aoe)

\* Lines 204-279.  md is what the batched fetch_article_metadata calls
\* returned for the candidates.
filter_candidates(candidates, rp, aoe, md) ==
    filter_loop([filtered |-> EmptyDict, comparative_hits |-> {}],
                DOMAIN candidates, candidates, md, rp, aoe)

\* What the metadata fetch can return for a candidate in a pipeline run: a
\* sample of records, one for each way through the filter loop.
MetaSamples ==
    {[title |-> {"WGS"}, abstract |-> {}, pubtypes |-> {"Journal Article"}],
     [title |-> {"assembly", "resequencing"}, abstract |-> {"variant"}, pubtypes |-> {}],
     [title |-> {"WGS"}, abstract |-> {"RNA-seq"}, pubtypes |-> {"Journal Article"}],
     [title |-> {"assembly", "WGS"}, abstract |-> {}, pubtypes |-> {}],
     [title |-> {"resequencing"}, abstract |-> {}, pubtypes |-> {"Review"}]}

\* The dicts with keys among ks and values in vs.
PartialDicts(ks, vs) == UNION {[d -> vs] : d \in SUBSET ks}

\* Lines 382-389: main() calls filter_candidates with its default options
\* and restricts the raw scores to the survivors.
Phase3 ==
    /\ pc = "phase3"
    /\ \E md \in PartialDicts(DOMAIN candidate_seeds, MetaSamples) :
          LET r == filter_candidates(candidate_seeds, require_pos,
                                     assembly_only_exclude, md)
          IN  /\ candidate_seeds' = r.filtered
              /\ comparative_hits' = r.comparative_hits
              /\ candidate_scores' =
                    [p \in DOMAIN r.filtered \cap DOMAIN candidate_scores |->
                        candidate_scores[p]]
    /\ pc' = "phase4"
    /\ UNCHANGED <<args, idx, related, last_call, queries, weighted_scores,
                   threshold_files, writes, ranked_file, ranked_written, conf,
                   require_pos, assembly_only_exclude, metadata, filtered,
                   refiltered,
                   parser>>

\* ------------------------------------------------------------------------
\* Phase 4: age weighting and comparative boost
\* ------------------------------------------------------------------------

\* Exact arithmetic on [num, den], den > 0.
Rat(n, d) == [num |-> n, den |-> d]
RatInt(n) == Rat(n, 1)
RatMul(a, b) == Rat(a.num * b.num, a.den * b.den)
RatSub(a, b) == Rat(a.num * b.den - b.num * a.den, a.den * b.den)
RatEq(a, b) == a.num * b.den = b.num * a.den
RatLess(a, b) == a.num * b.den < b.num * a.den
RatLeq(a, b) == a.num * b.den <= b.num * a.den

\* a ** g for an integer g >= 0; 0 ** 0 is 1 as in Python.
RECURSIVE RatPow(_, _)
RatPow(a, g) == IF g = 0 THEN RatInt(1) ELSE RatMul(a, RatPow(a, g - 1))

SetMax(S) == CHOOSE x \in S : \A y \in S : y <= x
SetMin(S) == CHOOSE x \in S : \A y \in S : x <= y

\* Mutant: age measured from the oldest candidate.
age_norm_from_min(pmid, max_pmid, min_pmid) == Rat(pmid - min_pmid, max_pmid - min_pmid)

\* Mutant: age not divided by the span of the surviving ids.
age_norm_unscaled(pmid, max_pmid, min_pmid) == Rat(max_pmid - pmid, 1)

\* Line 407
age_norm(pmid, max_pmid, min_pmid) == Rat(max_pmid - pmid, max_pmid - min_pmid)

\* Mutant: the boost is applied in the age-weighted branch only.
weighted_score_boost_in_else(pmid, score, max_pmid, min_pmid, hits, a) ==
    IF max_pmid = min_pmid
    THEN RatInt(score)
    ELSE LET weighted ==
                 RatMul(RatInt(score),
                        RatSub(RatInt(1),
                               RatMul(a.age_beta,
                                      RatPow(age_norm(pmid, max_pmid, min_pmid),
                                             a.age_gamma))))
         IN  IF pmid \in hits THEN RatMul(weighted, a.comparative_boost) ELSE weighted

\* Lines 404-412 for one candidate.
weighted_score(pmid, score, max_pmid, min_pmid, hits, a) ==
    LET weighted ==
            IF max_pmid = min_pmid
            THEN RatInt(score)
            ELSE RatMul(RatInt(score),
                        RatSub(RatInt(1),
                               RatMul(a.age_beta,
                                      RatPow(age_norm(pmid, max_pmid, min_pmid),
                                             a.age_gamma))))
    IN  IF pmid \in hits THEN RatMul(weighted, a.comparative_boost) ELSE weighted

\* Line 408: base ** exponent raises ZeroDivisionError for a zero base and a
\* negative exponent; the newest candidate has age_norm 0.
pow_raises(scores, a) ==
    /\ SetMax(DOMAIN scores) # SetMin(DOMAIN scores)
    /\ a.age_gamma < 0

Phase4 ==
    /\ pc = "phase4"
    /\ IF DOMAIN candidate_scores = {}
       THEN /\ pc' = "exit"
            /\ UNCHANGED weighted_scores
       ELSE IF pow_raises(candidate_scores, args)
       THEN /\ pc' = "raised"
            /\ UNCHANGED weighted_scores
       ELSE /\ pc' = "phase5"
            /\ weighted_scores' =
                  [p \in DOMAIN candidate_scores |->
                      weighted_score(p, candidate_scores[p],
                                     SetMax(DOMAIN candidate_scores),
                                     SetMin(DOMAIN candidate_scores),
                                     comparative_hits, args)]
    /\ UNCHANGED <<args, idx, related, last_call, queries, candidate_seeds,
                   candidate_scores, comparative_hits, threshold_files, writes,
                   ranked_file, ranked_written, conf, require_pos,
                   assembly_only_exclude, metadata, filtered, refiltered,
                   parser>>

\* ------------------------------------------------------------------------
\* Phase 5: output files and statistics
\* ------------------------------------------------------------------------

\* sorted() of a set of integers.
RECURSIVE sorted(_)
sorted(S) == IF S = {} THEN <<>> ELSE <<SetMin(S)>> \o sorted(S \ {SetMin(S)})

\* Line 423: max(2, max_score // 10)
recommended_threshold(max_score) ==
    IF max_score \div 10 > 2 THEN max_score \div 10 ELSE 2

\* Mutant: the recommended value is left out when it repeats a fixed one.
thresholds_deduplicated(max_score) ==
    IF recommended_threshold(max_score) \in {2, 3, 5, 10}
    THEN <<2, 3, 5, 10>>
    ELSE <<2, 3, 5, 10, recommended_threshold(max_score)>>

\* Line 447
thresholds(max_score) == <<2, 3, 5, 10, recommended_threshold(max_score)>>

\* Mutant: a strict comparison with the threshold.
threshold_lines_strict(scores, threshold) ==
    sorted({pmid \in DOMAIN scores : scores[pmid] > threshold})

\* Lines 451-456: the lines of one threshold file.
threshold_lines(scores, threshold) ==
    sorted({pmid \in DOMAIN scores : scores[pmid] >= threshold})

\* Lines 447-459: open(outfile, "w") replaces a file of the same name.
\* out = [files, writes].
RECURSIVE write_threshold_files(_, _, _, _)
write_threshold_files(out, ts, scores, max_score) ==
    IF ts = <<>> THEN out
    ELSE write_threshold_files(
            IF Head(ts) <= max_score
            THEN [files |-> append_dict(out.files, Head(ts),
                                        threshold_lines(scores, Head(ts))),
                  writes |-> Append(out.writes, Head(ts))]
            ELSE out,
            Tail(ts), scores, max_score)

\* Mutant: the last tie-break runs downwards.
key_less_pmid_desc(p, q, ws, scores) ==
    \/ RatLess(ws[q], ws[p])
    \/ /\ RatEq(ws[p], ws[q])
       /\ \/ scores[q] < scores[p]
          \/ scores[p] = scores[q] /\ q < p

\* Line 469: the sort key (-weighted, -score, pmid), compared as tuples.
key_less(p, q, ws, scores) ==
    \/ RatLess(ws[q], ws[p])
    \/ /\ RatEq(ws[p], ws[q])
       /\ \/ scores[q] < scores[p]
          \/ scores[p] = scores[q] /\ p < q

\* Lines 467-470: sorted(candidate_scores.keys(), key=...)
RECURSIVE sorted_pmids(_, _, _)
sorted_pmids(S, ws, scores) ==
    IF S = {} THEN <<>>
    ELSE LET first == CHOOSE p \in S : \A q \in S \ {p} : key_less(p, q, ws, scores)
         IN  <<first>> \o sorted_pmids(S \ {first}, ws, scores)

\* Lines 472-476: one row; WeightedScore is the value handed to the
\* formatter.
ranked_row(pmid, scores, ws, cs) ==
    [pmid |-> pmid, score |-> scores[pmid], weighted |-> ws[pmid], seeds |-> cs[pmid]]

ranked_rows(scores, ws, cs) ==
    LET order == sorted_pmids(DOMAIN scores, ws, scores)
    IN  [i \in 1..Len(order) |-> ranked_row(order[i], scores, ws, cs)]

\* Lines 482-484
confidence(scores, rec) ==
    [high |-> Cardinality({p \in DOMAIN scores : scores[p] >= rec}),
     med  |-> Cardinality({p \in DOMAIN scores : 3 <= scores[p] /\ scores[p] < rec}),
     low  |-> Cardinality({p \in DOMAIN scores : scores[p] < 3})]

max_score_of(scores) == SetMax({scores[p] : p \in DOMAIN scores})

Phase5 ==
    /\ pc = "phase5"
    /\ LET max_score == max_score_of(candidate_scores)
           out == write_threshold_files([files |-> threshold_files, writes |-> writes],
                                        thresholds(max_score), candidate_scores,
                                        max_score)
       IN  /\ threshold_files' = out.files
           /\ writes' = out.writes
           /\ ranked_file' = ranked_rows(candidate_scores, weighted_scores,
                                         candidate_seeds)
           /\ ranked_written' = TRUE
           /\ conf' = confidence(candidate_scores, recommended_threshold(max_score))
    /\ pc' = "done"
    /\ UNCHANGED <<args, idx, related, last_call, queries, candidate_seeds,
                   candidate_scores, comparative_hits, weighted_scores,
                   require_pos, assembly_only_exclude, metadata, filtered,
                   refiltered,
                   parser>>

\* ------------------------------------------------------------------------
\* fetch_article_metadata
\* ------------------------------------------------------------------------

\* A string is the sequence of its pieces; "" is <<>>.
Text(w) == <<w>>

\* What re.search gives on one line: no match, or the captured group.
NoMatch == <<>>
Match(v) == <<v>>

\* Mutant: the record is stored whether or not its id was requested.
save_record_unfiltered(st) ==
    IF st.current_pmid # 0
    THEN [st EXCEPT !.results =
             append_dict(@, st.current_pmid,
                         [title |-> st.current_title,
                          abstract |-> st.current_abstract,
                          pubtypes |-> st.current_pubtypes])]
    ELSE st

\* Lines 162-167 and 191-196.  current_pmid 0 stands for None: both are
\* falsy, and no requested id is 0.
save_record(st) ==
    IF st.current_pmid # 0 /\ st.current_pmid \in st.pmids
    THEN [st EXCEPT !.results =
             append_dict(@, st.current_pmid,
                         [title |-> st.current_title,
                          abstract |-> st.current_abstract,
                          pubtypes |-> st.current_pubtypes])]
    ELSE st

\* Lines 159-188: the body of the loop for one line, the four searches in
\* the order of the code.
parse_line(st, line) ==
    LET at_pmid ==
            IF line.pmid # NoMatch
            THEN [save_record(st) EXCEPT !.current_pmid = line.pmid[1],
                                         !.current_title = <<>>,
                                         !.current_abstract = <<>>,
                                         !.current_pubtypes = <<>>]
            ELSE st
        at_title ==
            IF line.title # NoMatch
            THEN [at_pmid EXCEPT !.current_title = line.title[1]]
            ELSE at_pmid
        at_abstract ==
            IF line.abstract # NoMatch
            THEN [at_title EXCEPT !.current_abstract = @ \o line.abstract[1] \o <<" ">>]
            ELSE at_title
    IN  IF line.pubtype # NoMatch
        THEN [at_abstract EXCEPT !.current_pubtypes =
                 (IF @ # <<>> THEN @ \o <<";">> ELSE @) \o line.pubtype[1]]
        ELSE at_abstract

\* Lines 142-157: the locals before the command is run.
fetch_locals(pmids, res) ==
    [pmids |-> pmids, res |-> res, pos |-> 1, current_pmid |-> 0,
     current_title |-> <<>>, current_abstract |-> <<>>,
     current_pubtypes |-> <<>>, results |-> EmptyDict]

\* fetch_article_metadata is not being followed.
NotFetching == fetch_locals({}, [kind |-> "empty", stdout |-> <<>>, code |-> 0])

\* ------------------------------------------------------------------------
\* The pipeline: main()
\* ------------------------------------------------------------------------

\* Command lines: --age-beta, --age-gamma, --comparative-boost, --max-seeds
\* (0 stands for the default None).
AgeBetas == {Rat(0, 1), Rat(3, 10), Rat(1, 1)}
AgeGammas == {-1, 0, 1, 2}
ComparativeBoosts == {Rat(23, 20), Rat(-1, 1)}
MaxSeeds == {0, 1}

\* Every combination of the scoring options, for the scoring and report
\* phases taken alone.
ScoringArgs == [age_beta : AgeBetas, age_gamma : AgeGammas,
                comparative_boost : ComparativeBoosts, max_seeds : {0}]

\* The command lines of the pipeline runs: the defaults' shape, a negative
\* exponent, and a full penalty with a negative boost; all seeds or the
\* first one.
PipelineArgs ==
    {[age_beta |-> Rat(3, 10), age_gamma |-> 1,
      comparative_boost |-> Rat(23, 20), max_seeds |-> m] : m \in MaxSeeds}
    \cup {[age_beta |-> Rat(3, 10), age_gamma |-> -1,
           comparative_boost |-> Rat(23, 20), max_seeds |-> m] : m \in MaxSeeds}
    \cup {[age_beta |-> Rat(1, 1), age_gamma |-> 2,
           comparative_boost |-> Rat(-1, 1), max_seeds |-> m] : m \in MaxSeeds}

Init ==
    /\ pc = "phase1"
    /\ args \in PipelineArgs
    /\ idx = 0
    /\ related = <<>>
    /\ last_call = NoCall
    /\ queries = <<>>
    /\ candidate_seeds = EmptyDict
    /\ candidate_scores = EmptyDict
    /\ comparative_hits = {}
    /\ weighted_scores = EmptyDict
    /\ threshold_files = EmptyDict
    /\ writes = <<>>
    /\ ranked_file = <<>>
    /\ ranked_written = FALSE
    /\ conf = [high |-> 0, med |-> 0, low |-> 0]
    /\ require_pos = TRUE
    /\ assembly_only_exclude = TRUE
    /\ metadata = EmptyDict
    /\ filtered = EmptyDict
    /\ refiltered = EmptyDict
    /\ parser = NotFetching

Next == Phase1Seed \/ Phase2 \/ Phase3 \/ Phase4 \/ Phase5

Spec == Init /\ [][Next]_vars

\* ------------------------------------------------------------------------
\* filter_candidates taken alone: any options, any fetched records
\* ------------------------------------------------------------------------

\* The identifiers that can be candidates.
Candidates == {p \in PMIDS : ~skip_candidate(p)}

\* The two oldest candidates.
FilterKeys == {p \in Candidates : Cardinality({q \in Candidates : q < p}) < 2}

SeedLists == {<<INCLUDE_PMIDS[1]>>, INCLUDE_PMIDS}

\* The oldest candidate's record ranges over the whole vocabulary, the
\* others' over the samples.
FetchedDicts(ks) ==
    {md \in PartialDicts(ks, Metas) :
        \A p \in DOMAIN md : p # SetMin(ks) => md[p] \in MetaSamples}

InitFilter ==
    /\ pc = "filter"
    /\ args = [age_beta |-> Rat(3, 10), age_gamma |-> 1,
               comparative_boost |-> Rat(23, 20), max_seeds |-> 0]
    /\ idx = 0
    /\ related = <<>>
    /\ last_call = NoCall
    /\ queries = <<>>
    /\ \E ks \in SUBSET FilterKeys \ {{}} :
          /\ candidate_seeds \in [ks -> SeedLists]
          /\ metadata \in FetchedDicts(ks)
    /\ candidate_scores = EmptyDict
    /\ comparative_hits = {}
    /\ weighted_scores = EmptyDict
    /\ threshold_files = EmptyDict
    /\ writes = <<>>
    /\ ranked_file = <<>>
    /\ ranked_written = FALSE
    /\ conf = [high |-> 0, med |-> 0, low |-> 0]
    /\ require_pos \in BOOLEAN
    /\ assembly_only_exclude \in BOOLEAN
    /\ filtered = EmptyDict
    /\ refiltered = EmptyDict
    /\ parser = NotFetching

\* fetch_article_metadata keeps the records of the requested batch only
\* (lines 162, 191).
fetched_for(md, pmids) == [p \in DOMAIN md \cap pmids |-> md[p]]

FilterOnce ==
    /\ pc = "filter"
    /\ LET r == filter_candidates(candidate_seeds, require_pos,
                                  assembly_only_exclude,
                                  fetched_for(metadata, DOMAIN candidate_seeds))
       IN  /\ filtered' = r.filtered
           /\ comparative_hits' = r.comparative_hits
    /\ pc' = "filtered"
    /\ UNCHANGED <<args, idx, related, last_call, queries, candidate_seeds,
                   candidate_scores, weighted_scores, threshold_files, writes,
                   ranked_file, ranked_written, conf, require_pos,
                   assembly_only_exclude, metadata, refiltered,
                   parser>>

FilterAgain ==
    /\ pc = "filtered"
    /\ LET r == filter_candidates(filtered, require_pos, assembly_only_exclude,
                                  fetched_for(metadata, DOMAIN filtered))
       IN  refiltered' = r.filtered
    /\ pc' = "refiltered"
    /\ UNCHANGED <<args, idx, related, last_call, queries, candidate_seeds,
                   candidate_scores, comparative_hits, weighted_scores,
                   threshold_files, writes, ranked_file, ranked_written, conf,
                   require_pos, assembly_only_exclude, metadata, filtered,
                   parser>>

NextFilter == FilterOnce \/ FilterAgain

SpecFilter == InitFilter /\ [][NextFilter]_vars

\* ------------------------------------------------------------------------
\* Phases 4 and 5 taken alone: any scoring options, any surviving set
\* ------------------------------------------------------------------------

\* Raw scores of a run over the full seed list, sampled around the
\* thresholds 2, 3, 5, 10 and max_score // 10.
ScoreSamples == {1, 2, 3, 5, 10, 30, 47}

\* A discovering-seed list of length n.
seeds_of_len(n) ==
    [i \in 1..n |-> INCLUDE_PMIDS[((i - 1) % Len(INCLUDE_PMIDS)) + 1]]

InitReport ==
    /\ pc = "phase4"
    /\ args \in ScoringArgs
    /\ idx = Len(INCLUDE_PMIDS)
    /\ related = <<>>
    /\ last_call = NoCall
    /\ queries = [i \in 1..Len(INCLUDE_PMIDS) |-> 2]
    /\ \E ks \in SUBSET Candidates :
          /\ candidate_scores \in [ks -> ScoreSamples]
          /\ comparative_hits \in {{}, {p \in ks : \A q \in ks : p <= q}, ks}
    /\ candidate_seeds =
          [p \in DOMAIN candidate_scores |-> seeds_of_len(candidate_scores[p])]
    /\ weighted_scores = EmptyDict
    /\ threshold_files = EmptyDict
    /\ writes = <<>>
    /\ ranked_file = <<>>
    /\ ranked_written = FALSE
    /\ conf = [high |-> 0, med |-> 0, low |-> 0]
    /\ require_pos = TRUE
    /\ assembly_only_exclude = TRUE
    /\ metadata = EmptyDict
    /\ filtered = EmptyDict
    /\ refiltered = EmptyDict
    /\ parser = NotFetching

NextReport == Phase4 \/ Phase5

SpecReport == InitReport /\ [][NextReport]_vars

\* ------------------------------------------------------------------------
\* fetch_article_metadata taken alone, line by line
\* ------------------------------------------------------------------------
MaxLines == 4       \* lines of one efetch -format xml response

\* The ids of <PMID> elements in a response: two requested ones and one
\* that was not requested.
MarkerIds == FilterKeys \cup {SetMax(Candidates)}

\* A response line is what the four searches of lines 159-184 find on it.
XmlLine(pmid, title, abstract, pubtype) ==
    [pmid |-> pmid, title |-> title, abstract |-> abstract, pubtype |-> pubtype]

\* <PMID> lines, <ArticleTitle> lines, <AbstractText> lines,
\* <PublicationType> lines (one of them with an empty text), a line with a
\* <PMID> and an <ArticleTitle>, and a line with none of the four.
XmlLines ==
    {XmlLine(Match(k), NoMatch, NoMatch, NoMatch) : k \in MarkerIds}
    \cup {XmlLine(NoMatch, Match(Text(t)), NoMatch, NoMatch) : t \in {"WGS", "assembly"}}
    \cup {XmlLine(NoMatch, NoMatch, Match(Text(t)), NoMatch) : t \in {"variant", "SNP"}}
    \cup {XmlLine(NoMatch, NoMatch, NoMatch, Match(t)) : t \in {<<>>, Text("Review")}}
    \cup {XmlLine(Match(SetMin(MarkerIds)), Match(Text("WGS")), NoMatch, NoMatch),
          XmlLine(NoMatch, NoMatch, NoMatch, NoMatch)}

\* The command's results, as far as their first line.  The loop reads the
\* lines once, from first to last, so that the lines after the first are
\* drawn as they are read (ParseLine).
EfetchXmlResults == run_command_results(SeqsUpTo(XmlLines, 1))

InitParse ==
    /\ pc = "fetch"
    /\ \E pmids \in {{}, FilterKeys}, res \in EfetchXmlResults :
          /\ pmids = {} => res.kind = "empty"
          /\ parser = fetch_locals(pmids, res)
    /\ args = [age_beta |-> Rat(3, 10), age_gamma |-> 1,
               comparative_boost |-> Rat(23, 20), max_seeds |-> 0]
    /\ idx = 0
    /\ related = <<>>
    /\ last_call = NoCall
    /\ queries = <<>>
    /\ candidate_seeds = EmptyDict
    /\ candidate_scores = EmptyDict
    /\ comparative_hits = {}
    /\ weighted_scores = EmptyDict
    /\ threshold_files = EmptyDict
    /\ writes = <<>>
    /\ ranked_file = <<>>
    /\ ranked_written = FALSE
    /\ conf = [high |-> 0, med |-> 0, low |-> 0]
    /\ require_pos = TRUE
    /\ assembly_only_exclude = TRUE
    /\ metadata = EmptyDict
    /\ filtered = EmptyDict
    /\ refiltered = EmptyDict

\* Lines 139-151: nothing requested, or the command failed or printed
\* nothing: the empty dict is returned.
FetchStart ==
    /\ pc = "fetch"
    /\ pc' = IF parser.pmids = {} \/ command_failed(parser.res)
             THEN "fetched" ELSE "parsing"
    /\ UNCHANGED <<args, idx, related, last_call, queries, candidate_seeds,
                   candidate_scores, comparative_hits, weighted_scores,
                   threshold_files, writes, ranked_file, ranked_written, conf,
                   require_pos, assembly_only_exclude, metadata, filtered,
                   refiltered, parser>>

\* Lines 158-188: one iteration of the loop over the lines; the response
\* ends with the line just read or has one of XmlLines after it.
ParseLine ==
    /\ pc = "parsing"
    /\ parser.pos <= Len(parser.res.stdout)
    /\ \E stdout \in {parser.res.stdout}
                     \cup {Append(parser.res.stdout, line) :
                              line \in IF Len(parser.res.stdout) < MaxLines
                                       THEN XmlLines ELSE {}} :
          parser' = [parse_line(parser, parser.res.stdout[parser.pos])
                        EXCEPT !.pos = @ + 1, !.res.stdout = stdout]
    /\ UNCHANGED <<pc, args, idx, related, last_call, queries, candidate_seeds,
                   candidate_scores, comparative_hits, weighted_scores,
                   threshold_files, writes, ranked_file, ranked_written, conf,
                   require_pos, assembly_only_exclude, metadata, filtered,
                   refiltered>>

\* Lines 190-198: the last record is stored and the dict returned.
ParseEnd ==
    /\ pc = "parsing"
    /\ parser.pos > Len(parser.res.stdout)
    /\ parser' = save_record(parser)
    /\ pc' = "fetched"
    /\ UNCHANGED <<args, idx, related, last_call, queries, candidate_seeds,
                   candidate_scores, comparative_hits, weighted_scores,
                   threshold_files, writes, ranked_file, ranked_written, conf,
                   require_pos, assembly_only_exclude, metadata, filtered,
                   refiltered>>

NextParse == FetchStart \/ ParseLine \/ ParseEnd

SpecParse == InitParse /\ [][NextParse]_vars

\* ========================================================================
\* Properties
\* ========================================================================

Scored == pc \in {"phase5", "done"}
Terminated == pc \in {"exit", "raised", "done"}
\* The process ended with a non-zero status: sys.exit(1) or an uncaught
\* exception.
Fatal == pc \in {"exit", "raised"}

\* Every identifier held by the pipeline or written to a file.
OutputPmids ==
    DOMAIN candidate_seeds \cup DOMAIN candidate_scores \cup DOMAIN weighted_scores
    \cup UNION {Range(threshold_files[t]) : t \in DOMAIN threshold_files}
    \cup {ranked_file[i].pmid : i \in DOMAIN ranked_file}

\* C1: every key of the candidate mapping, during and after aggregation,
\* and every identifier in any output, is outside INCLUDE and EXCLUDE and
\* is at least MIN_PMID.
C1_CandidatesAdmissible ==
    \A p \in OutputPmids :
        /\ \A i \in DOMAIN INCLUDE_PMIDS : INCLUDE_PMIDS[i] # p
        /\ \A i \in DOMAIN EXCLUDE_PMIDS : EXCLUDE_PMIDS[i] # p
        /\ p >= MIN_PMID

\* C1 witness: a seed's response named an identifier below the cutoff that
\* is in neither list, next to one that became a candidate.
C1_Witness ==
    /\ pc = "phase1"
    /\ \E i \in DOMAIN related :
          related[i] < MIN_PMID /\ related[i] \notin exclude_set
    /\ \E i \in DOMAIN related : related[i] \in DOMAIN candidate_seeds

\* C2 (as claimed): after aggregation every raw score is the length of the
\* discovering-seed list and the number of distinct seeds in it.
C2_RawScoreCountsDistinctSeeds ==
    pc \in {"phase3", "phase4", "phase5", "done"} =>
        \A p \in DOMAIN candidate_scores :
            /\ candidate_scores[p] = Len(candidate_seeds[p])
            /\ candidate_scores[p] = Cardinality(Range(candidate_seeds[p]))

FailureKinds == {"nonzero", "timeout", "empty"}
CallFailed(call) == call.elink \in FailureKinds \/ call.efetch \in FailureKinds

\* C3: a loop iteration whose elink or efetch call fails (non-zero exit,
\* timeout, empty output) returns the empty list, leaves the candidate
\* mapping as it was, issues one elink and at most one efetch and no more,
\* and leaves the loop at the next seed in input order; the commands
\* counted for earlier seeds never change.
C3_FailedSeedContributesNothing ==
    [][(pc = "phase1" /\ idx' = idx + 1 /\ CallFailed(last_call')) =>
          /\ related' = <<>>
          /\ candidate_seeds' = candidate_seeds
          /\ pc' = "phase1"
          /\ last_call'.seed = seeds_to_process[idx']
          /\ Len(queries') = idx'
          /\ queries'[idx'] = (IF last_call'.elink \in FailureKinds THEN 1 ELSE 2)
          /\ \A i \in 1..idx : queries'[i] = queries[i]]_vars

\* C3 witness: the first seed's elink failed, the second seed was then
\* queried with both commands and brought candidates.
C3_Witness ==
    /\ pc = "phase1"
    /\ idx = 2
    /\ queries = <<1, 2>>
    /\ last_call.seed = INCLUDE_PMIDS[2]
    /\ last_call.efetch = "ok"
    /\ DOMAIN candidate_seeds # {}

\* C4 (as claimed): a run that has ended ended with a non-zero status
\* exactly when no candidate was found or none survived the filter, then
\* without scores and without any output file, and otherwise wrote the
\* ranked report.
C4_FatalExactlyWhenNoCandidates ==
    Terminated =>
        /\ Fatal <=> DOMAIN candidate_scores = {}
        /\ Fatal => /\ DOMAIN weighted_scores = {}
                    /\ DOMAIN threshold_files = {}
                    /\ ~ranked_written
        /\ ~Fatal => ranked_written

\* The filter chain of one candidate, stated on the five pattern predicates.
ChainKeeps(p) ==
    \/ p \notin DOMAIN metadata
    \/ LET content == {Lower(w) : w \in metadata[p].title \cup metadata[p].abstract}
           pubtypes == {Lower(w) : w \in metadata[p].pubtypes}
           comparative == content \cap {"variant", "snp", "resequencing"} # {}
           assembly == "assembly" \in content
           excluded_pubtype == "review" \in pubtypes
           negative == content \cap {"snp", "rna-seq"} # {}
           positive == content \cap {"wgs", "resequencing"} # {}
       IN  ~ \/ assembly_only_exclude /\ assembly /\ ~comparative
             \/ pubtypes # {} /\ excluded_pubtype
             \/ negative
             \/ require_pos /\ ~positive

\* C5: filter_candidates keeps a candidate, with its seed list, exactly when
\* the chain keeps it, for every option and every fetched record; a
\* candidate whose record says "RNA-seq" is never kept.
C5_FilterFollowsChain ==
    pc \in {"filtered", "refiltered"} =>
        \A p \in DOMAIN candidate_seeds :
            /\ p \in DOMAIN filtered <=> ChainKeeps(p)
            /\ p \in DOMAIN filtered => filtered[p] = candidate_seeds[p]
            /\ (p \in DOMAIN metadata /\ "RNA-seq" \in metadata[p].abstract)
                   => p \notin DOMAIN filtered

\* C5 witness: with both options on, a record with "WGS" and "RNA-seq" was
\* dropped and a comparative assembly record was kept.
C5_Witness ==
    /\ pc = "filtered"
    /\ require_pos /\ assembly_only_exclude
    /\ \E p \in DOMAIN metadata :
          /\ "RNA-seq" \in metadata[p].abstract
          /\ "WGS" \in metadata[p].title
          /\ p \notin DOMAIN filtered
    /\ \E p \in DOMAIN metadata :
          /\ "assembly" \in metadata[p].title
          /\ p \in comparative_hits
          /\ p \in DOMAIN filtered

\* C6: filtering the survivors again, with the same records, returns the
\* same survivors with the same seed lists.
C6_FilterIdempotent ==
    pc = "refiltered" => refiltered = filtered

\* C6 witness: the first pass removed a candidate and kept another, and
\* the second pass has run.
C6_Witness ==
    /\ pc = "refiltered"
    /\ DOMAIN filtered # {}
    /\ DOMAIN filtered # DOMAIN candidate_seeds
    /\ DOMAIN refiltered = DOMAIN filtered

Degenerate == Cardinality(DOMAIN candidate_scores) = 1

\* C7 (as claimed): with a single surviving identifier the weighted score
\* is the raw score, flagged comparative or not.
C7_DegenerateIsRaw ==
    (Scored /\ Degenerate) =>
        \A p \in DOMAIN candidate_scores :
            weighted_scores[p].num = candidate_scores[p] * weighted_scores[p].den

\* C7 (amended): with a single surviving identifier the weighted score is
\* the raw score when the candidate is not flagged comparative, and the raw
\* score times comparative_boost when it is, whatever age_beta and
\* age_gamma.
C7_DegenerateIsRawTimesBoost ==
    (Scored /\ Degenerate) =>
        \A p \in DOMAIN candidate_scores :
            LET w == weighted_scores[p]
                b == args.comparative_boost
            IN  IF p \in comparative_hits
                THEN w.num * b.den = candidate_scores[p] * b.num * w.den
                ELSE w.num = candidate_scores[p] * w.den

\* C7 witness: a single survivor, flagged comparative, scored with a
\* negative exponent and a full penalty.
C7_Witness ==
    /\ Scored /\ Degenerate
    /\ DOMAIN candidate_scores \subseteq comparative_hits
    /\ args.age_gamma < 0
    /\ args.age_beta.num = args.age_beta.den

SameFlag(p, q) == (p \in comparative_hits) <=> (q \in comparative_hits)

\* C8 (as claimed): for age_beta > 0, of two survivors with the same raw
\* score and the same comparative flag the older one has the smaller or
\* equal weighted score.
C8_OlderScoresLower ==
    (Scored /\ args.age_beta.num > 0) =>
        \A p, q \in DOMAIN candidate_scores :
            (p < q /\ candidate_scores[p] = candidate_scores[q] /\ SameFlag(p, q))
                => weighted_scores[p].num * weighted_scores[q].den
                      <= weighted_scores[q].num * weighted_scores[p].den

\* C8 (amended): the same, for candidates that are not flagged comparative
\* or scored with a comparative_boost >= 0.
C8_OlderScoresLowerNonNegativeBoost ==
    (Scored /\ args.age_beta.num > 0) =>
        \A p, q \in DOMAIN candidate_scores :
            (/\ p < q
             /\ candidate_scores[p] = candidate_scores[q]
             /\ SameFlag(p, q)
             /\ (p \in comparative_hits => args.comparative_boost.num >= 0))
                => weighted_scores[p].num * weighted_scores[q].den
                      <= weighted_scores[q].num * weighted_scores[p].den

\* C8 witness: three survivors with one raw score, all flagged, a positive
\* boost, and the oldest scored strictly below the middle one, the middle
\* one strictly below the newest.
C8_Witness ==
    /\ Scored
    /\ args.age_beta.num > 0 /\ args.comparative_boost.num > 0
    /\ \E p, q, r \in DOMAIN candidate_scores :
          /\ p < q /\ q < r
          /\ {p, q, r} \subseteq comparative_hits
          /\ candidate_scores[p] = candidate_scores[q]
          /\ candidate_scores[q] = candidate_scores[r]
          /\ RatLess(weighted_scores[p], weighted_scores[q])
          /\ RatLess(weighted_scores[q], weighted_scores[r])

IsAscending(seq) == \A i, j \in DOMAIN seq : i < j => seq[i] < seq[j]

\* C9: with rec = max(2, floor(max raw score / 10)), the threshold files
\* present after the run are those of the T in {2, 3, 5, 10, rec} with
\* T <= max raw score, and the file of T lists the survivors with raw
\* score >= T, each once, ascending.
C9_ThresholdFiles ==
    pc = "done" =>
        LET max_raw == CHOOSE m \in {candidate_scores[p] : p \in DOMAIN candidate_scores} :
                           \A p \in DOMAIN candidate_scores : candidate_scores[p] <= m
            tenth == CHOOSE k \in 0..max_raw : 10 * k <= max_raw /\ max_raw < 10 * (k + 1)
            rec == IF tenth >= 2 THEN tenth ELSE 2
        IN  /\ DOMAIN threshold_files = {t \in {2, 3, 5, 10, rec} : t <= max_raw}
            /\ \A t \in DOMAIN threshold_files :
                  /\ IsAscending(threshold_files[t])
                  /\ Range(threshold_files[t]) =
                        {p \in DOMAIN candidate_scores : candidate_scores[p] >= t}

\* C9 witness: the largest raw score is 47, candidates_min4_seeds.txt
\* exists, holds a candidate of raw score 5 and leaves out one of raw
\* score 3.
C9_Witness ==
    /\ pc = "done"
    /\ \E p \in DOMAIN candidate_scores : candidate_scores[p] = 47
    /\ 4 \in DOMAIN threshold_files
    /\ \E p \in Range(threshold_files[4]) : candidate_scores[p] = 5
    /\ \E p \in DOMAIN candidate_scores :
          candidate_scores[p] = 3 /\ p \notin Range(threshold_files[4])

\* Row a comes strictly before row b under (-weighted, -score, +pmid).
RowBefore(a, b) ==
    \/ a.weighted.num * b.weighted.den > b.weighted.num * a.weighted.den
    \/ /\ a.weighted.num * b.weighted.den = b.weighted.num * a.weighted.den
       /\ a.score > b.score
    \/ /\ a.weighted.num * b.weighted.den = b.weighted.num * a.weighted.den
       /\ a.score = b.score
       /\ a.pmid < b.pmid

\* C10: candidates_ranked.txt has one row per survivor, carrying its raw
\* and weighted score, and every row comes strictly before the rows after
\* it: weighted score descending, then raw score descending, then
\* identifier ascending.
C10_RankedOrder ==
    pc = "done" =>
        /\ Len(ranked_file) = Cardinality(DOMAIN candidate_scores)
        /\ {ranked_file[i].pmid : i \in DOMAIN ranked_file} = DOMAIN candidate_scores
        /\ \A i \in DOMAIN ranked_file :
              /\ ranked_file[i].score = candidate_scores[ranked_file[i].pmid]
              /\ ranked_file[i].weighted = weighted_scores[ranked_file[i].pmid]
        /\ \A i, j \in DOMAIN ranked_file :
              i < j => RowBefore(ranked_file[i], ranked_file[j])

\* C10 witness: two rows tie on weighted and raw score, a third row with a
\* lower raw score and a higher weighted score stands before them.
C10_Witness ==
    /\ pc = "done"
    /\ Len(ranked_file) = 3
    /\ ranked_file[1].score < ranked_file[2].score
    /\ RatEq(ranked_file[2].weighted, ranked_file[3].weighted)
    /\ ranked_file[2].score = ranked_file[3].score
    /\ ranked_file[2].pmid < ranked_file[3].pmid

\* C11 (as claimed): the three confidence counts add up to the number of
\* surviving candidates, each survivor being counted in exactly one tier.
C11_TiersPartition ==
    pc = "done" =>
        conf.high + conf.med + conf.low = Cardinality(DOMAIN candidate_scores)

\* The largest raw score and max(2, m // 10), restated from the claim.
MaxRaw ==
    CHOOSE m \in {candidate_scores[p] : p \in DOMAIN candidate_scores} :
        \A p \in DOMAIN candidate_scores : candidate_scores[p] <= m
Rec(m) ==
    LET tenth == CHOOSE k \in 0..m : 10 * k <= m /\ m < 10 * (k + 1)
    IN  IF tenth >= 2 THEN tenth ELSE 2

\* The entries of list that are <= m, in list order.
RECURSIVE EntriesUpTo(_, _)
EntriesUpTo(list, m) ==
    IF list = <<>> THEN <<>>
    ELSE IF Head(list) <= m
    THEN <<Head(list)>> \o EntriesUpTo(Tail(list), m)
    ELSE EntriesUpTo(Tail(list), m)

\* C13 (as claimed): the number of distinct threshold files present after
\* the run equals the number of entries of [2, 3, 5, 10, rec] that are
\* <= the largest raw score, a repeated value giving two files.
C13_OneFilePerEntry ==
    pc = "done" =>
        LET m == MaxRaw
        IN  Cardinality(DOMAIN threshold_files) =
                Len(EntriesUpTo(<<2, 3, 5, 10, Rec(m)>>, m))

\* C13 (amended): every entry of [2, 3, 5, 10, rec] that is <= the largest
\* raw score is written, in list order, to the file named after its value;
\* a repeated value rewrites the same file with the same lines, so the
\* number of files is the number of distinct values written, one less than
\* the number of writes when rec repeats a fixed threshold.
C13_OneFilePerDistinctValue ==
    pc = "done" =>
        LET m == MaxRaw
            rec == Rec(m)
            entries == EntriesUpTo(<<2, 3, 5, 10, rec>>, m)
            repeated == rec \in {2, 3, 5, 10} /\ rec <= m
        IN  /\ writes = entries
            /\ DOMAIN threshold_files = Range(entries)
            /\ Cardinality(DOMAIN threshold_files) =
                  IF repeated THEN Len(entries) - 1 ELSE Len(entries)

\* C13 witness: the largest raw score is 30, so rec = 3 repeats a fixed
\* threshold; candidates_min3_seeds.txt is written twice and four files
\* remain after five writes.
C13_Witness ==
    /\ pc = "done"
    /\ MaxRaw = 30
    /\ Len(writes) = 5
    /\ writes[2] = 3 /\ writes[5] = 3
    /\ Cardinality(DOMAIN threshold_files) = 4

\* The oldest of at least two survivors, whose age_norm is 1.
Oldest(p) ==
    /\ \A q \in DOMAIN candidate_scores : p <= q
    /\ \E q \in DOMAIN candidate_scores : q # p

InDocumentedRange ==
    /\ RatLeq(RatInt(0), args.age_beta)
    /\ RatLeq(args.age_beta, RatInt(1))
    /\ args.age_gamma > 0

\* C14 (as claimed): for age_beta in [0, 1] and age_gamma > 0 every survivor
\* that is not flagged comparative has a weighted score strictly above 0,
\* the oldest one included.
C14_PenalizedScoreAboveZero ==
    (Scored /\ InDocumentedRange) =>
        \A p \in DOMAIN candidate_scores \ comparative_hits :
            RatLess(RatInt(0), weighted_scores[p])

\* C14 (amended): for age_beta in [0, 1] and age_gamma > 0 a survivor that
\* is not flagged comparative has a weighted score strictly above 0, except
\* that with age_beta = 1 the oldest of two or more survivors scores
\* exactly 0.
C14_PenalizedScoreAboveZeroUnlessFullPenalty ==
    (Scored /\ InDocumentedRange) =>
        \A p \in DOMAIN candidate_scores \ comparative_hits :
            IF RatEq(args.age_beta, RatInt(1)) /\ Oldest(p)
            THEN RatEq(weighted_scores[p], RatInt(0))
            ELSE RatLess(RatInt(0), weighted_scores[p])

\* C14 witness: age_beta = 1 and three unflagged survivors; the oldest
\* scores 0, the other two score above 0, the middle one below its raw
\* score.
C14_Witness ==
    /\ Scored /\ InDocumentedRange
    /\ RatEq(args.age_beta, RatInt(1))
    /\ comparative_hits = {}
    /\ \E p, q, r \in DOMAIN candidate_scores :
          /\ p < q /\ q < r /\ Oldest(p)
          /\ RatEq(weighted_scores[p], RatInt(0))
          /\ RatLess(RatInt(0), weighted_scores[q])
          /\ RatLess(weighted_scores[q], RatInt(candidate_scores[q]))
          /\ RatLess(RatInt(0), weighted_scores[r])

\* The response being parsed, the lines read so far, and the lines that
\* hold an identifier marker.
Lines == parser.res.stdout
Parsed == IF pc = "fetched" THEN Len(Lines) ELSE parser.pos - 1
Markers == {i \in 1..Parsed : Lines[i].pmid # NoMatch}
MarkerId(i) == Lines[i].pmid[1]
ResponseParsed ==
    /\ pc \in {"parsing", "fetched"}
    /\ parser.pmids # {} /\ parser.res.code = 0 /\ Lines # <<>>

\* The markers whose record has been emitted: those followed by another
\* marker and, at the end of the stream, the last one.
Emitted ==
    {i \in Markers : pc = "fetched" \/ \E j \in Markers : i < j}

\* The last line read that belongs to the record opened at line i.
RecordEnd(i) ==
    IF \E j \in Markers : i < j
    THEN (CHOOSE j \in Markers : i < j /\ \A k \in Markers : i < k => j <= k) - 1
    ELSE Parsed

\* What one of the searches found on lines i..j, in encounter order.
Found(field, i, j) ==
    LET on_line == [k \in 1..(j - i + 1) |-> Lines[i + k - 1][field]]
        hit == SelectSeq(on_line, LAMBDA m : m # NoMatch)
    IN  [k \in DOMAIN hit |-> hit[k][1]]

LastOrEmpty(vals) == IF vals = <<>> THEN <<>> ELSE vals[Len(vals)]

RECURSIVE EachFollowedBySpace(_)
EachFollowedBySpace(vals) ==
    IF vals = <<>> THEN <<>>
    ELSE Head(vals) \o <<" ">> \o EachFollowedBySpace(Tail(vals))

RECURSIVE SemicolonJoined(_)
SemicolonJoined(vals) ==
    IF vals = <<>> THEN <<>>
    ELSE IF Len(vals) = 1 THEN vals[1]
    ELSE Head(vals) \o <<";">> \o SemicolonJoined(Tail(vals))

RECURSIVE WithoutLeadingEmpty(_)
WithoutLeadingEmpty(vals) ==
    IF vals # <<>> /\ Head(vals) = <<>>
    THEN WithoutLeadingEmpty(Tail(vals))
    ELSE vals

\* The record of the marker at line i: the (last) title, the abstract
\* fragments each followed by a space, and the publication types as given
\* by join.
RecordOf(i, join(_)) ==
    [title |-> LastOrEmpty(Found("title", i, RecordEnd(i))),
     abstract |-> EachFollowedBySpace(Found("abstract", i, RecordEnd(i))),
     pubtypes |-> join(Found("pubtype", i, RecordEnd(i)))]

\* The parser follows awaitingRecord -> accumulatingFields ->
\* emit-on-boundary, with join for the publication types: no record is
\* open before the first marker; the open record is that of the last
\* marker read; the result holds, for each requested id with an emitted
\* marker, the record of its last emitted marker, and nothing else.
FollowsStateMachine(join(_)) ==
    /\ DOMAIN parser.results \subseteq parser.pmids
    /\ (pc = "fetched" /\ ~ResponseParsed) => parser.results = EmptyDict
    /\ ResponseParsed =>
          /\ pc = "parsing" =>
                IF Markers = {}
                THEN parser.current_pmid = 0
                ELSE LET last == CHOOSE i \in Markers : \A j \in Markers : j <= i
                         open == RecordOf(last, join)
                     IN  /\ parser.current_pmid = MarkerId(last)
                         /\ parser.current_title = open.title
                         /\ parser.current_abstract = open.abstract
                         /\ parser.current_pubtypes = open.pubtypes
          /\ DOMAIN parser.results =
                {MarkerId(i) : i \in Emitted} \cap parser.pmids
          /\ \A k \in DOMAIN parser.results :
                LET last == CHOOSE i \in Emitted :
                                /\ MarkerId(i) = k
                                /\ \A j \in Emitted : MarkerId(j) = k => j <= i
                IN  parser.results[k] = RecordOf(last, join)

\* C12 (as claimed): for any sequence of response lines the parser follows
\* the state machine; fields before the first identifier marker are
\* dropped, each emitted record carries the title, the abstract fragments
\* in encounter order and the semicolon-joined publication types seen
\* between its marker and the next marker or the end of the stream, and
\* every key of the result is a requested identifier.
C12_ParserFollowsStateMachine == FollowsStateMachine(SemicolonJoined)

\* C12 (amended): the same, the publication types being semicolon-joined
\* after the empty ones that precede the first non-empty one are left out.
C12_ParserFollowsStateMachineLeadingEmptyTypesDropped ==
    FollowsStateMachine(LAMBDA vals : SemicolonJoined(WithoutLeadingEmpty(vals)))

\* C12 witness: a requested marker, an empty and a non-empty publication
\* type, then a marker that was not requested: the result holds the one
\* record, with the non-empty type alone.
C12_Witness ==
    /\ pc = "fetched" /\ ResponseParsed
    /\ Len(Lines) = 4
    /\ Lines[1].pmid # NoMatch /\ MarkerId(1) \in parser.pmids
    /\ Lines[2].pubtype = Match(<<>>)
    /\ Lines[3].pubtype # NoMatch /\ Lines[3].pubtype # Match(<<>>)
    /\ Lines[4].pmid # NoMatch /\ MarkerId(4) \notin parser.pmids
    /\ DOMAIN parser.results = {MarkerId(1)}
    /\ parser.results[MarkerId(1)].pubtypes = Lines[3].pubtype[1]

=============================================================================
